---- MODULE Spec2Model ----
(***************************************************************************)
(* Model of pytest_rpc/helpers.py: the OpenStack verification helpers.    *)
(*                                                                         *)
(* Python values are records [kind, v]; v is always a sequence or a       *)
(* function, so any two values can be compared.  A call's outcome is a    *)
(* record [exc, msg, v, ran]: the exception raised ("none" for a normal   *)
(* return), its message, the value returned, and the commands the call    *)
(* handed to the host's run().                                             *)
(***************************************************************************)
EXTENDS Integers, Sequences, FiniteSets, TLC

\* ---------------------------------------------------------------- bounds
MaxRetries == 2
MaxRecords == 2
MaxId == 2
MaxTableLines == 3
MaxReconLines == 5
MaxRingLines == 2

\* ---------------------------------------------------------- Python values
None == [kind |-> "None", v |-> <<>>]
Str(s) == [kind |-> "str", v |-> s]
PyInt(s) == [kind |-> "int", v |-> s]
Bool(b) == [kind |-> "bool", v |-> <<b>>]
Dict(f) == [kind |-> "dict", v |-> f]
List(s) == [kind |-> "list", v |-> s]
Host == [kind |-> "host", v |-> <<>>]

\* str == str, str == UUID, ...: values of different types are never equal
PyEq(a, b) == a.kind = b.kind /\ a.v = b.v

Digit == <<"1", "2", "3", "4">>
\* the canonical text of the n-th identifier
IdText(n) == <<"u", Digit[n]>>
IdTexts == {IdText(n) : n \in 1..MaxId}
Uuid(n) == [kind |-> "uuid", v |-> IdText(n)]

\* outcome of a call
Res(exc, msg, v, ran) == [exc |-> exc, msg |-> msg, v |-> v, ran |-> ran]

\* uuid.UUID(x)
uuid_UUID(x) ==
    IF x.kind # "str" THEN Res("AttributeError", "replace", None, <<>>)
    ELSE IF x.v \notin IdTexts
         THEN Res("ValueError", "badly formed hexadecimal UUID string", None, <<>>)
         ELSE Res("none", "", [kind |-> "uuid", v |-> x.v], <<>>)

\* str(x) of an identifier
str(x) == [kind |-> "str", v |-> x.v]

\* str.lower()
LowerChar(c) == IF c = "A" THEN "a" ELSE IF c = "B" THEN "b" ELSE c
lower(s) == [n \in 1..Len(s) |-> LowerChar(s[n])]

\* x[key]
Subscript(x, key) ==
    IF x.kind # "dict" THEN Res("TypeError", "indices", None, <<>>)
    ELSE IF key \notin DOMAIN x.v THEN Res("KeyError", key, None, <<>>)
         ELSE Res("none", "", x.v[key], <<>>)

\* json.loads(text): a text is [fmt, doc], doc the document a JSON text holds
json_loads(text) ==
    IF text.fmt = "json" THEN Res("none", "", text.doc, <<>>)
    ELSE Res("ValueError", "No JSON object could be decoded", None, <<>>)

Json(doc) == [fmt |-> "json", doc |-> doc]
Text == [fmt |-> "text", doc |-> None]

\* ------------------------------------------------------------- commands
OpenStackCmd(words) == Str(<<". ~/openrc ;", "openstack">> \o words)
ListCmd(resource_type) == OpenStackCmd(<<resource_type, "list", "-f", "json">>)
DeleteCmd(resource_type, addl_flags, resource_id) ==
    OpenStackCmd(<<resource_type, "delete", addl_flags>> \o resource_id.v)

\* run_on_container(run_on_host, command, container_type): the host answers
\* with reply
run_on_container(run_on_host, command, container_type, reply) ==
    IF run_on_host.kind = "host"
    THEN Res("none", "", reply,
             <<[host |-> run_on_host, command |-> command,
                container |-> container_type]>>)
    ELSE Res("AttributeError", "run", None, <<>>)

\* get_resources_by_type(run_on_host, resource_type)
get_resources_by_type(run_on_host, resource_type, reply) ==
    LET cmd == ListCmd(resource_type)
        output == run_on_container(cmd, Str(<<"utility">>), run_on_host, reply)
    IN  IF output.exc # "none" THEN output
        ELSE LET parsed == json_loads(output.v.stdout)
             IN  Res("none", "",
                     IF parsed.exc = "ValueError" THEN List(<<>>) ELSE parsed.v,
                     output.ran)

\* [x for x in resources if x[key] == value], guarded by
\* except (KeyError, TypeError): matches = []
MatchesBy(resources, key, value) ==
    IF resources.kind # "list" THEN [failed |-> TRUE, matches |-> <<>>]
    ELSE LET Hit(x) == PyEq(Subscript(x, key).v, value)
             bad == \E n \in 1..Len(resources.v) :
                        Subscript(resources.v[n], key).exc # "none"
         IN  IF bad THEN [failed |-> TRUE, matches |-> <<>>]
             ELSE [failed |-> FALSE, matches |-> SelectSeq(resources.v, Hit)]

\* lines 564-569 of get_resources_by_type, once a host has run the list
\* command and answered with reply
loaded(run_on_host, resource_type, reply) ==
    LET parsed == json_loads(reply.stdout)
    IN  Res("none", "",
            IF parsed.exc = "ValueError" THEN List(<<>>) ELSE parsed.v,
            <<[host |-> run_on_host, command |-> ListCmd(resource_type),
               container |-> Str(<<"utility">>)]>>)

\* lines 501-513 of get_resource_by_id, on the outcome resources of its call
\* of get_resources_by_type
resource_by_id(resources, resource_id) ==
    IF resources.exc # "none" THEN resources
    ELSE LET matches == MatchesBy(resources.v, "ID", resource_id).matches
         IN  IF matches = <<>>
             THEN Res("RuntimeError", "not found", None, resources.ran)
             ELSE IF Len(matches) > 1
                  THEN Res("RuntimeError", "multiple", None, resources.ran)
                  ELSE Res("none", "", matches[1], resources.ran)

\* get_resource_by_id(run_on_host, resource_type, resource_id)
get_resource_by_id(run_on_host, resource_type, resource_id, reply) ==
    resource_by_id(get_resources_by_type(run_on_host, resource_type, reply),
                   resource_id)

\* lines 151-155 of assert_resource_exists_by_id, on the outcome r of its
\* call of get_resource_by_id
exists_by_id(r) ==
    IF r.exc = "RuntimeError" THEN Res("AssertionError", r.msg, None, r.ran)
    ELSE IF r.exc = "none" THEN Res("none", "", None, r.ran)
         ELSE r

\* assert_resource_exists_by_id(run_on_host, resource_type, resource_id)
assert_resource_exists_by_id(run_on_host, resource_type, resource_id, reply) ==
    exists_by_id(get_resource_by_id(run_on_host, resource_type, resource_id,
                                    reply))

\* get_resources_by_name(run_on_host, resource_type, resource_name)
get_resources_by_name(run_on_host, resource_type, resource_name, reply) ==
    LET resources == get_resources_by_type(run_on_host, resource_type, reply)
    IN  IF resources.exc # "none" THEN resources
        ELSE LET byName == MatchesBy(resources.v, "Name", resource_name)
                 byDisplay == MatchesBy(resources.v, "Display Name", resource_name)
             IN  Res("none", "",
                     List(IF ~byName.failed THEN byName.matches
                          ELSE byDisplay.matches),
                     resources.ran)

\* assert_resource_exists_by_name(run_on_host, resource_type, resource_name):
\* line 179 asserts a two-element tuple, which is true whatever it holds
assert_resource_exists_by_name(run_on_host, resource_type, resource_name, reply) ==
    LET r == get_resources_by_name(run_on_host, resource_type, resource_name,
                                   reply)
        asserted == <<r.v, "not found">>
    IN  IF r.exc # "none" THEN r
        ELSE IF asserted = <<>>
             THEN Res("AssertionError", "not found", None, r.ran)
             ELSE Res("none", "", None, r.ran)

\* get_id_by_name(run_on_host, resource_type, resource_name)
get_id_by_name(run_on_host, resource_type, resource_name, reply) ==
    LET resources == get_resources_by_name(run_on_host, resource_type,
                                           resource_name, reply)
    IN  IF resources.exc # "none" THEN resources
        ELSE IF resources.v.v = <<>>
             THEN Res("AssertionError", "not found", None, resources.ran)
             ELSE IF "ID" \in DOMAIN resources.v.v[1].v
                  THEN LET u == uuid_UUID(resources.v.v[1].v["ID"])
                       IN  Res(u.exc, u.msg, u.v, resources.ran)
                  ELSE Res("AssertionError", "not found", None, resources.ran)

\* the tail the create actions share: json.loads with the raw text as
\* fallback, the two asserts, and the extraction of result[key]
ParseCreated(output, key, assert_msg) ==
    LET parsed == json_loads(output.stdout)
        created == IF parsed.exc = "ValueError" THEN Str(<<"raw">>) ELSE parsed.v
    IN  IF created.kind # "dict" THEN Res("AssertionError", assert_msg, None, <<>>)
        ELSE IF key \notin DOMAIN created.v
             THEN Res("AssertionError", assert_msg, None, <<>>)
             ELSE Res("none", "", created.v[key], <<>>)

\* sleep_timeout of _delete_it and of assert_resource_attribute_value
delete_sleep_timeout == 2
attribute_sleep_timeout == 6

\* ---------------------------------------------------- the remote system
AttrStrings == {<<"a">>, <<"A">>, <<"b">>}
AttrNames == {"status", "ID"}
Ids == {Str(IdText(n)) : n \in 1..MaxId} \cup {Uuid(n) : n \in 1..MaxId}

\* the values an inventory record may carry under a key
FieldValues(key) ==
    IF key = "ID" THEN {Str(t) : t \in IdTexts} \cup {PyInt(<<"7">>)}
    ELSE IF key = "id" THEN {Str(IdText(1)), Str(<<"z">>), PyInt(<<"7">>)}
    ELSE IF key = "floating_ip_address" THEN {Str(<<"1.2.3.4">>)}
    ELSE {Str(t) : t \in AttrStrings}

DictsOver(keys) ==
    UNION {{Dict(f) : f \in {g \in [K -> UNION {FieldValues(k) : k \in K}] :
                                \A k \in K : g[k] \in FieldValues(k)}} :
           K \in SUBSET keys}

\* records of an inventory listing; a listing may hold things that are no
\* records
IdRecords == DictsOver({"ID", "status"}) \cup {Str(<<"x">>)}

SeqsUpTo(S, n) == UNION {[1..m -> S] : m \in 0..n}
Snapshots == SeqsUpTo(IdRecords, MaxRecords)

\* what the host prints for `openstack <type> list -f json`
ListOutputs == {Json(List(s)) : s \in Snapshots} \cup {Text}
ListReply(out) == [rc |-> 0, stdout |-> out]

NameRecords == DictsOver({"ID", "Name"}) \cup {Str(<<"x">>)}
NameOutputs == {Json(List(s)) : s \in SeqsUpTo(NameRecords, MaxRecords)} \cup {Text}

\* listings whose records are named under 'Name', under 'Display Name',
\* under both or under neither
LookupRecords == NameRecords \cup DictsOver({"Name", "Display Name"})
LookupOutputs ==
    {Json(List(s)) : s \in SeqsUpTo(LookupRecords, MaxRecords)} \cup {Text}
Names == {Str(t) : t \in AttrStrings}

\* what the host prints for a create command, and its exit status
CreateOutputs ==
    {Json(d) : d \in DictsOver({"id", "floating_ip_address"})}
        \cup {Json(List(<<>>)), Text}
ExitCodes == {0, 1}

\* -------------------------------------------------------------- state
\* pc, op            where the running call stands, and which call it is
\* resource_id .. case_insensitive   the arguments of the call
\* i, resource, expectation_met      the locals of the loops
\* result            how the call ended
\* polls             for every call of get_resources_by_type, what the remote
\*                   system lists at that moment
\* cmds              the commands handed to the host's run(), in order
\* sleeps, events    the sleeps made, and the order of fetches, runs and sleeps
\* reply             the answer of the host to the mutating command
\* resource_name     the name a lookup by name was asked for
\* text              the text handed to a parser
VARIABLES pc, op, resource_id, retries, attribute_name, expected_value,
          case_insensitive, i, resource, expectation_met, result, polls,
          cmds, sleeps, reply, events, resource_name, text

vars == <<pc, op, resource_id, retries, attribute_name, expected_value,
          case_insensitive, i, resource, expectation_met, result, polls,
          cmds, sleeps, reply, events, resource_name, text>>

args == <<resource_id, retries, attribute_name, expected_value,
          case_insensitive, resource_name, text>>
locals == <<i, resource, expectation_met>>

NoResult == [exc |-> "pending", msg |-> "", v |-> None, detail |-> <<>>]
Returned(v) == [exc |-> "none", msg |-> "", v |-> v, detail |-> <<>>]
Raised(exc, msg, detail) == [exc |-> exc, msg |-> msg, v |-> None, detail |-> detail]
NoReply == [rc |-> 0, stdout |-> Text]

Init ==
    /\ pc = "idle"
    /\ op = "none"
    /\ resource_id = Uuid(1)
    /\ retries = 0
    /\ attribute_name = "status"
    /\ expected_value = Str(<<"a">>)
    /\ case_insensitive = TRUE
    /\ i = 0
    /\ resource = Dict(<<>>)
    /\ expectation_met = FALSE
    /\ result = NoResult
    /\ polls = <<>>
    /\ cmds = <<>>
    /\ sleeps = 0
    /\ reply = NoReply
    /\ events = <<>>
    /\ resource_name = Str(<<"a">>)
    /\ text = <<>>

\* a call begins
Enter(name) == op' = name

\* the call ends with outcome r
Finish(r) ==
    /\ pc' = "done"
    /\ result' = r

Fetch == [ev |-> "fetch", arg |-> 0]
Slept(t) == [ev |-> "sleep", arg |-> t]
Ran(r) == [n \in 1..Len(r.ran) |-> [ev |-> "run", arg |-> 0]]
Utility == Str(<<"utility">>)

\* --------------------------------------------------- lookups (one step)
\* get_resource_by_id(run_on_host, 'server', id)
call_get_resource_by_id ==
    /\ pc = "idle"
    /\ \E id \in Ids, out \in ListOutputs :
        LET r == get_resource_by_id(Host, "server", id, ListReply(out))
        IN  /\ Enter("get_resource_by_id")
            /\ resource_id' = id
            /\ polls' = <<out>>
            /\ cmds' = r.ran
            /\ events' = <<Fetch>> \o Ran(r)
            /\ Finish(IF r.exc = "none" THEN Returned(r.v)
                      ELSE Raised(r.exc, r.msg, <<>>))
            /\ UNCHANGED <<resource_name, text, retries, attribute_name, expected_value,
                           case_insensitive, locals, reply, sleeps>>

\* assert_resource_exists_by_id(run_on_host, 'server', id)
call_assert_resource_exists_by_id ==
    /\ pc = "idle"
    /\ \E id \in Ids, out \in ListOutputs :
        LET r == assert_resource_exists_by_id(Host, "server", id, ListReply(out))
        IN  /\ Enter("assert_resource_exists_by_id")
            /\ resource_id' = id
            /\ polls' = <<out>>
            /\ cmds' = r.ran
            /\ events' = <<Fetch>> \o Ran(r)
            /\ Finish(IF r.exc = "none" THEN Returned(None)
                      ELSE Raised(r.exc, r.msg, <<>>))
            /\ UNCHANGED <<resource_name, text, retries, attribute_name, expected_value,
                           case_insensitive, locals, reply, sleeps>>

\* get_resources_by_type(run_on_host, 'server')
call_get_resources_by_type ==
    /\ pc = "idle"
    /\ \E out \in ListOutputs :
        LET r == get_resources_by_type(Host, "server", ListReply(out))
        IN  /\ Enter("get_resources_by_type")
            /\ polls' = <<out>>
            /\ cmds' = r.ran
            /\ events' = <<Fetch>> \o Ran(r)
            /\ Finish(IF r.exc = "none" THEN Returned(r.v)
                      ELSE Raised(r.exc, r.msg, <<>>))
            /\ UNCHANGED <<args, locals, reply, sleeps>>

\* a lookup by name ends with outcome r after one fetch of the listing out
Looked(name, named, out, r) ==
    /\ Enter(name)
    /\ resource_name' = named
    /\ polls' = <<out>>
    /\ cmds' = r.ran
    /\ events' = <<Fetch>> \o Ran(r)
    /\ Finish(IF r.exc = "none" THEN Returned(r.v)
              ELSE Raised(r.exc, r.msg, <<>>))
    /\ UNCHANGED <<resource_id, retries, attribute_name, expected_value,
                   case_insensitive, text, locals, reply, sleeps>>

\* get_resources_by_name(run_on_host, 'server', name)
call_get_resources_by_name ==
    /\ pc = "idle"
    /\ \E name \in Names, out \in LookupOutputs :
        Looked("get_resources_by_name", name, out,
               get_resources_by_name(Host, "server", name, ListReply(out)))

\* assert_resource_exists_by_name(run_on_host, 'server', name)
call_assert_resource_exists_by_name ==
    /\ pc = "idle"
    /\ \E name \in Names, out \in LookupOutputs :
        Looked("assert_resource_exists_by_name", name, out,
               assert_resource_exists_by_name(Host, "server", name,
                                              ListReply(out)))

\* get_id_by_name(run_on_host, 'server', name)
call_get_id_by_name ==
    /\ pc = "idle"
    /\ \E name \in Names, out \in LookupOutputs :
        Looked("get_id_by_name", name, out,
               get_id_by_name(Host, "server", name, ListReply(out)))

\* ------------------------------------------------------------ _delete_it
\* the retries a caller gets who names none (line 18)
default_retries == 10

\* the flags a caller of delete_volume may add
AddlFlags == {"", "--force"}

\* the resource type the running deletion is about (lines 378, 397)
resource_type == IF op = "delete_volume" THEN "volume" ELSE "server"

\* what the caller of the running deletion receives: delete_instance and
\* delete_volume call _delete_it as a statement (lines 378, 397), so its
\* value stops there and they return None; an exception passes through
ToCaller(r) ==
    IF op \in {"delete_instance", "delete_volume"} /\ r.exc = "none"
    THEN Returned(None)
    ELSE r

\* a loop that makes one pass more than its budget
InRangeInclusive == i <= retries

\* for i in range(0, retries): is there another pass? (lines 49, 98)
InRange == i < retries

\* a command taken for done whatever its exit status
succeeded_whatever(output) == TRUE

\* line 47: assert run_on_container(...).rc == 0
succeeded(output) == output.rc = 0

\* lines 39-47: build the command, run it, assert rc == 0
delete_it(name, type, flags, id, n, rc) ==
        LET r == run_on_container(Host, DeleteCmd(type, flags, id), Utility,
                                  [rc |-> rc, stdout |-> Text])
        IN  /\ Enter(name)
            /\ resource_id' = id
            /\ retries' = n
            /\ i' = 0
            /\ cmds' = r.ran
            /\ events' = Ran(r)
            /\ reply' = r.v
            /\ polls' = <<>>
            /\ IF succeeded(r.v)
               THEN pc' = "delete_loop" /\ UNCHANGED result
               ELSE Finish(Raised("AssertionError", "Failed to delete resource", <<>>))
            /\ UNCHANGED <<resource_name, text, attribute_name, expected_value, case_insensitive,
                           resource, expectation_met, sleeps>>

\* _delete_it(run_on_host, 'server', id, retries=n)
delete_it_command ==
    /\ pc = "idle"
    /\ \E id \in Ids, n \in 0..MaxRetries, rc \in ExitCodes :
        delete_it("_delete_it", "server", "", id, n, rc)

\* delete_instance(run_on_host, instance_id)
delete_instance ==
    /\ pc = "idle"
    /\ \E id \in Ids, rc \in ExitCodes :
        delete_it("delete_instance", "server", "", id, default_retries, rc)

\* delete_volume(run_on_host, volume_id, addl_flags)
delete_volume ==
    /\ pc = "idle"
    /\ \E id \in Ids, flags \in AddlFlags, rc \in ExitCodes :
        delete_it("delete_volume", "volume", flags, id, default_retries, rc)

\* lines 49-57: one pass of the loop body, in which the remote system lists
\* out and assert_resource_exists_by_id ends with outcome r
delete_it_pass(r, out) ==
    /\ pc = "delete_loop"
    /\ InRange
    /\ polls' = Append(polls, out)
    /\ cmds' = cmds \o r.ran
    /\ IF r.exc = "AssertionError"
       THEN /\ Finish(ToCaller(Returned(Bool(TRUE))))
            /\ events' = events \o <<Fetch>> \o Ran(r)
            /\ UNCHANGED <<i, sleeps>>
       ELSE IF r.exc = "none"
            THEN /\ i' = i + 1
                 /\ sleeps' = sleeps + 1
                 /\ events' = events \o <<Fetch>> \o Ran(r)
                                \o <<Slept(delete_sleep_timeout)>>
                 /\ UNCHANGED <<pc, result>>
            ELSE /\ Finish(Raised(r.exc, r.msg, <<>>))
                 /\ events' = events \o <<Fetch>> \o Ran(r)
                 /\ UNCHANGED <<i, sleeps>>
    /\ UNCHANGED <<op, args, resource, expectation_met, reply>>

delete_it_attempt ==
    /\ pc = "delete_loop"
    /\ \E out \in ListOutputs :
        delete_it_pass(assert_resource_exists_by_id(Host, resource_type,
                                                    resource_id, ListReply(out)),
                       out)

\* line 59: the loop ran out
delete_it_exhausted ==
    /\ pc = "delete_loop"
    /\ ~InRange
    /\ Finish(ToCaller(Returned(Bool(FALSE))))
    /\ UNCHANGED <<op, args, locals, polls, cmds, sleeps, reply, events>>

\* ---------------------------------------- assert_resource_attribute_value
\* lines 94-96: the locals before the loop
attribute_value_enter ==
    /\ pc = "idle"
    /\ \E id \in Ids, n \in 0..MaxRetries, name \in AttrNames,
       expected \in {Str(t) : t \in AttrStrings}, ci \in BOOLEAN :
        /\ Enter("assert_resource_attribute_value")
        /\ resource_id' = id
        /\ retries' = n
        /\ attribute_name' = name
        /\ expected_value' = expected
        /\ case_insensitive' = ci
        /\ i' = 0
        /\ resource' = Dict(<<>>)
        /\ expectation_met' = FALSE
        /\ pc' = "attribute_loop"
        /\ polls' = <<>>
        /\ cmds' = <<>>
        /\ events' = <<>>
        /\ UNCHANGED <<result, sleeps, reply, resource_name, text>>

\* lines 113-119: does the observed value meet the expectation?  "no" is the
\* continue of line 119; .lower() of a value that is no str raises
Compare(actual, expected, ci) ==
    IF PyEq(actual, expected) THEN "met"
    ELSE IF actual.kind # "str" THEN "AttributeError"
         ELSE IF PyEq(Str(lower(actual.v)), expected) /\ ci THEN "met"
              ELSE "no"

\* lines 98-121: one pass of the loop body, in which the remote system lists
\* out and get_resource_by_id ends with outcome r
attribute_value_pass(r, out) ==
    LET seen == events \o <<Fetch>> \o Ran(r)
        verdict == Compare(r.v.v[attribute_name], expected_value,
                           case_insensitive)
    IN  /\ pc = "attribute_loop"
        /\ InRange
        /\ polls' = Append(polls, out)
        /\ cmds' = cmds \o r.ran
        /\ IF r.exc = "RuntimeError"
           THEN /\ Finish(Raised("AssertionError", r.msg, <<>>))
                /\ events' = seen
                /\ UNCHANGED <<locals, sleeps>>
           ELSE IF r.exc # "none"
           THEN /\ Finish(Raised(r.exc, r.msg, <<>>))
                /\ events' = seen
                /\ UNCHANGED <<locals, sleeps>>
           ELSE IF attribute_name \notin DOMAIN r.v.v
           THEN /\ Finish(Raised("AssertionError", "attribute does not exist", <<>>))
                /\ resource' = r.v
                /\ events' = seen
                /\ UNCHANGED <<i, expectation_met, sleeps>>
           ELSE IF verdict = "AttributeError"
           THEN /\ Finish(Raised("AttributeError", "lower", <<>>))
                /\ resource' = r.v
                /\ events' = seen
                /\ UNCHANGED <<i, expectation_met, sleeps>>
           ELSE IF verdict = "met"
           THEN /\ resource' = r.v
                /\ expectation_met' = TRUE
                /\ i' = i + 1
                /\ sleeps' = sleeps + 1
                /\ events' = seen \o <<Slept(attribute_sleep_timeout)>>
                /\ UNCHANGED <<pc, result>>
           ELSE /\ resource' = r.v
                /\ i' = i + 1
                /\ events' = seen
                /\ UNCHANGED <<pc, result, expectation_met, sleeps>>
        /\ UNCHANGED <<op, args, reply>>

attribute_value_attempt ==
    /\ pc = "attribute_loop"
    /\ \E out \in ListOutputs :
        attribute_value_pass(get_resource_by_id(Host, "server", resource_id,
                                                ListReply(out)),
                             out)

\* lines 123-131: after the loop
attribute_value_verdict ==
    /\ pc = "attribute_loop"
    /\ ~InRange
    /\ Finish(IF expectation_met THEN Returned(None)
              ELSE IF attribute_name \notin DOMAIN resource.v
                   THEN Raised("KeyError", attribute_name, <<>>)
                   ELSE Raised("AssertionError", "does not match",
                               <<expected_value, resource.v[attribute_name]>>))
    /\ UNCHANGED <<op, args, locals, polls, cmds, sleeps, reply, events>>

\* ------------------------------------------------------ mutating actions
\* an action that is one command and the reading of its answer
Mutation(name, id, r, outcome) ==
    /\ Enter(name)
    /\ resource_id' = id
    /\ cmds' = r.ran
    /\ events' = Ran(r)
    /\ reply' = r.v
    /\ polls' = <<>>
    /\ Finish(outcome)
    /\ UNCHANGED <<resource_name, text, retries, attribute_name, expected_value, case_insensitive,
                   locals, sleeps>>

\* create_bootable_volume(run_on_host, size, imageref, name, zone)
create_bootable_volume ==
    /\ pc = "idle"
    /\ \E rc \in ExitCodes, out \in CreateOutputs :
        LET cmd == OpenStackCmd(<<"volume", "create", "-f", "json", "--size",
                                  "--image", "--availability-zone", "--bootable">>)
            output == run_on_container(Host, cmd, Utility, [rc |-> rc, stdout |-> out])
            assert_msg == "Failed to create bootable volume!"
            id == ParseCreated(output.v, "id", assert_msg)
            u == uuid_UUID(id.v)
        IN  Mutation("create_bootable_volume", resource_id, output,
                     IF id.exc # "none" THEN Raised(id.exc, id.msg, <<>>)
                     ELSE IF u.exc # "none" THEN Raised(u.exc, u.msg, <<>>)
                          ELSE Returned(u.v))

\* create_snapshot_from_instance(run_on_host, snapshot_name, instance_id)
create_snapshot_from_instance ==
    /\ pc = "idle"
    /\ \E rc \in ExitCodes, out \in CreateOutputs, instance_id \in Ids :
        LET cmd == OpenStackCmd(<<"server", "image", "create", "-f", "json",
                                  "--name">> \o instance_id.v)
            output == run_on_container(Host, cmd, Utility, [rc |-> rc, stdout |-> out])
            assert_msg == "Failed to create snapshot!"
            id == ParseCreated(output.v, "id", assert_msg)
            u == uuid_UUID(id.v)
        IN  Mutation("create_snapshot_from_instance", instance_id, output,
                     IF id.exc # "none" THEN Raised(id.exc, id.msg, <<>>)
                     ELSE IF u.exc # "none" THEN Raised(u.exc, u.msg, <<>>)
                          ELSE Returned(u.v))

\* create_floating_ip(run_on_host, network_resource_id)
create_floating_ip ==
    /\ pc = "idle"
    /\ \E rc \in ExitCodes, out \in CreateOutputs, network_resource_id \in Ids :
        LET cmd == OpenStackCmd(<<"floating", "ip", "create", "-f", "json">>
                                \o str(network_resource_id).v)
            key == "floating_ip_address"
            output == run_on_container(Host, cmd, Utility, [rc |-> rc, stdout |-> out])
            assert_msg == "Failed to create floating IP!"
            ip == ParseCreated(output.v, key, assert_msg)
        IN  Mutation("create_floating_ip", network_resource_id, output,
                     IF output.v.rc # 0 THEN Raised("AssertionError", assert_msg, <<>>)
                     ELSE IF ip.exc # "none" THEN Raised(ip.exc, ip.msg, <<>>)
                          ELSE Returned(ip.v))

\* stop_server_instance(instance_id, run_on_host)
stop_server_instance ==
    /\ pc = "idle"
    /\ \E rc \in ExitCodes, instance_id \in Ids :
        LET cmd == OpenStackCmd(<<"server", "stop">> \o instance_id.v)
            output == run_on_container(Host, cmd, Utility, [rc |-> rc, stdout |-> Text])
        IN  Mutation("stop_server_instance", instance_id, output,
                     IF output.v.rc = 0 THEN Returned(None)
                     ELSE Raised("AssertionError", "Failed to stop instance", <<>>))

\* create_instance, lines 300-322: the command and the reading of its answer
create_instance_command(source_id, network_id, answer) ==
    LET cmd == OpenStackCmd(<<"server", "create", "-f", "json", "--image">>
                            \o str(source_id).v \o <<"--flavor", "--nic">>
                            \o str(network_id).v)
        output == run_on_container(Host, cmd, Utility, answer)
        id == ParseCreated(output.v, "id", "Failed to create instance!")
        u == uuid_UUID(id.v)
    IN  IF id.exc # "none" THEN Res(id.exc, id.msg, None, output.ran)
        ELSE Res(u.exc, u.msg, u.v, output.ran)

\* what create_instance leaves behind
Created(listings, ran, answer, r) ==
    /\ polls' = listings
    /\ cmds' = ran
    /\ events' = [n \in 1..Len(listings) |-> Fetch]
                    \o [n \in 1..Len(ran) |-> [ev |-> "run", arg |-> 0]]
    /\ reply' = answer
    /\ Finish(IF r.exc = "none" THEN Returned(r.v) ELSE Raised(r.exc, r.msg, <<>>))

\* create_instance(run_on_host, instance_name, image_source_name, image_name,
\* flavor_name, network_name): the two name lookups (lines 297-298), then the
\* command
create_instance ==
    /\ pc = "idle"
    /\ Enter("create_instance")
    /\ UNCHANGED <<args, locals, sleeps>>
    /\ \E images \in NameOutputs, image_name \in {Str(t) : t \in AttrStrings} :
        LET source_id == get_id_by_name(Host, "image", image_name, ListReply(images))
        IN  IF source_id.exc # "none"
            THEN Created(<<images>>, source_id.ran, reply, source_id)
            ELSE \E networks \in NameOutputs,
                    network_name \in {Str(t) : t \in AttrStrings} :
                 LET network_id == get_id_by_name(Host, "network", network_name,
                                                  ListReply(networks))
                 IN  IF network_id.exc # "none"
                     THEN Created(<<images, networks>>,
                                  source_id.ran \o network_id.ran, reply, network_id)
                     ELSE \E rc \in ExitCodes, out \in CreateOutputs :
                          LET answer == [rc |-> rc, stdout |-> out]
                              r == create_instance_command(source_id.v,
                                                           network_id.v, answer)
                          IN  Created(<<images, networks>>,
                                      source_id.ran \o network_id.ran \o r.ran,
                                      answer, r)

\* ------------------------------------------------------------- parsers
\* a Python str is the sequence of its characters
RECURSIVE split(_, _)
\* s.split(sep), sep one character
split(s, sep) ==
    LET at == {n \in 1..Len(s) : s[n] = sep}
    IN  IF at = {} THEN <<s>>
        ELSE LET k == CHOOSE n \in at : \A m \in at : n <= m
             IN  <<SubSeq(s, 1, k - 1)>> \o split(SubSeq(s, k + 1, Len(s)), sep)

Whitespace == {" ", "\t"}

RECURSIVE split_whitespace(_)
\* s.split(): the maximal runs of characters that are no whitespace
split_whitespace(s) ==
    IF s = <<>> THEN <<>>
    ELSE IF s[1] \in Whitespace THEN split_whitespace(Tail(s))
    ELSE LET ends == {n \in 1..Len(s) : s[n] \in Whitespace}
             k == IF ends = {} THEN Len(s) + 1
                  ELSE CHOOSE n \in ends : \A m \in ends : n <= m
         IN  <<SubSeq(s, 1, k - 1)>> \o split_whitespace(SubSeq(s, k, Len(s)))

\* sub in s
contains(sub, s) ==
    \E k \in 0..(Len(s) - Len(sub)) : SubSeq(s, k + 1, k + Len(sub)) = sub

\* filter(None, strings)
filter_None(strings) == SelectSeq(strings, LAMBDA x : x # <<>>)

RECURSIVE join(_, _)
\* sep.join(strings)
join(strings, sep) ==
    IF strings = <<>> THEN <<>>
    ELSE IF Len(strings) = 1 THEN strings[1]
    ELSE strings[1] \o <<sep>> \o join(Tail(strings), sep)

\* ---------------------------------------------------------- parse_table
\* list(filter(lambda x: x != '|', line.split()))
splitted_line(line) == SelectSeq(split_whitespace(line), LAMBDA x : x # <<"|">>)

\* a row cut to the header's length
data_row_truncated(line, header) ==
    LET cells == splitted_line(line)
        padded == cells \o [n \in 1..(Len(header) - Len(cells)) |-> <<>>]
    IN  SubSeq(padded, 1, Len(header))

\* a row left as the line had it
data_row_unpadded(line, header) == splitted_line(line)

\* lines 660-664: the cells of the line, then '' while shorter than header
data_row(line, header) ==
    LET cells == splitted_line(line)
    IN  cells \o [n \in 1..(Len(header) - Len(cells)) |-> <<>>]

RECURSIVE parse_table_loop(_, _, _)
\* lines 653-665: the loop over the lines that are not empty
parse_table_loop(lines, header, data) ==
    IF lines = <<>> THEN [header |-> header, data |-> data]
    ELSE LET line == Head(lines)
         IN  IF contains(<<"-", "+", "-">>, line)
             THEN parse_table_loop(Tail(lines), header, data)
             ELSE IF header = <<>>
                  THEN parse_table_loop(Tail(lines), splitted_line(line), data)
                  ELSE parse_table_loop(Tail(lines), header,
                                        Append(data, data_row(line, header)))

\* parse_table(ascii_table)
parse_table(ascii_table) ==
    parse_table_loop(filter_None(split(ascii_table, "\n")), <<>>, <<>>)

\* the lines of the tables handed to parse_table
TableLines ==
    { <<"|", " ", "a", " ", "|", " ", "b", " ", "|">>,
      <<"+", "-", "+", "-", "+">>,
      <<"|", " ", "1", " ", "|", " ", "2", " ", "|">>,
      <<"|", " ", "1", " ", "|">>,
      <<"1">>,
      <<"|", " ", "1", " ", "|", " ", "2", " ", "|", " ", "3", " ", "|">>,
      <<"|">>,
      <<" ">>,
      <<"|", "a", "|">>,
      <<>> }
TableTexts == {join(ls, "\n") : ls \in SeqsUpTo(TableLines, MaxTableLines)}

\* what a parser call leaves alone
remote == <<resource_id, retries, attribute_name, expected_value,
            case_insensitive, resource_name, locals, polls, cmds, sleeps,
            reply, events>>

\* a parser is called with the text t and ends with outcome r
Parsed(name, t, r) ==
    /\ Enter(name)
    /\ text' = t
    /\ Finish(r)
    /\ UNCHANGED remote

call_parse_table ==
    /\ pc = "idle"
    /\ \E t \in TableTexts : Parsed("parse_table", t, Returned(parse_table(t)))

\* ----------------------------------------------------- parse_swift_recon
\* the delimiter of line 595 is ^={79}
DelimiterWidth == 79

\* recon_out.splitlines(), for texts whose only line break is '\n': a text
\* that ends with a line break has no empty last line
splitlines(s) ==
    LET pieces == split(s, "\n")
    IN  IF pieces[Len(pieces)] = <<>>
        THEN SubSeq(pieces, 1, Len(pieces) - 1)
        ELSE pieces

\* delimiter_regex.match(x)
delimiter_match(x) ==
    /\ Len(x) >= DelimiterWidth
    /\ \A n \in 1..DelimiterWidth : x[n] = "="

\* [ind for ind, x in enumerate(lines) if delimiter_regex.match(x)]
delimiter_positions(lines) ==
    SelectSeq([n \in 1..Len(lines) |-> n], LAMBDA n : delimiter_match(lines[n]))

\* a parser that also takes what follows the last delimiter for a block
parse_swift_recon_open_tail(recon_out) ==
    LET lines == splitlines(recon_out)
        positions == delimiter_positions(lines)
    IN  [ind \in 1..Len(positions) |->
            SubSeq(lines, positions[ind] + 1,
                   IF ind < Len(positions) THEN positions[ind + 1] - 1
                   ELSE Len(lines))]

\* parse_swift_recon(recon_out): for every delimiter but the last,
\* lines[start:end] from the line after it up to the next delimiter
parse_swift_recon(recon_out) ==
    LET lines == splitlines(recon_out)
        positions == delimiter_positions(lines)
    IN  [ind \in 1..(Len(positions) - 1) |->
            SubSeq(lines, positions[ind] + 1, positions[ind + 1] - 1)]

\* the lines of the texts handed to parse_swift_recon
Rule(n) == [k \in 1..n |-> "="]
ReconLines ==
    { Rule(DelimiterWidth), Rule(DelimiterWidth + 1), Rule(DelimiterWidth - 1),
      <<"x">>, <<"y">> }
ReconTexts == {join(ls, "\n") : ls \in SeqsUpTo(ReconLines, MaxReconLines)}

call_parse_swift_recon ==
    /\ pc = "idle"
    /\ \E t \in ReconTexts :
        Parsed("parse_swift_recon", t, Returned(parse_swift_recon(t)))

\* ---------------------------------------------- parse_swift_ring_builder
partitions == <<"p", "a", "r", "t", "i", "t", "i", "o", "n", "s">>
dispersion == <<"d", "i", "s", "p", "e", "r", "s", "i", "o", "n">>

RECURSIVE lstrip(_)
lstrip(s) ==
    IF s # <<>> /\ s[1] \in Whitespace THEN lstrip(Tail(s)) ELSE s
RECURSIVE rstrip(_)
rstrip(s) ==
    IF s # <<>> /\ s[Len(s)] \in Whitespace
    THEN rstrip(SubSeq(s, 1, Len(s) - 1))
    ELSE s
\* s.strip()
strip(s) == rstrip(lstrip(s))

DecimalDigits == <<"0", "1", "2", "3", "4", "5", "6", "7", "8", "9">>
DigitValue(c) == (CHOOSE n \in 1..Len(DecimalDigits) : DecimalDigits[n] = c) - 1
IsDigit(c) == \E n \in 1..Len(DecimalDigits) : DecimalDigits[n] = c

RECURSIVE Natural(_)
\* the number a sequence of digits writes
Natural(ds) ==
    IF ds = <<>> THEN 0
    ELSE Natural(SubSeq(ds, 1, Len(ds) - 1)) * Len(DecimalDigits)
            + DigitValue(ds[Len(ds)])

\* float(v) for a v made of digits and at most one '.', the only numerals of
\* the texts below; anything else of those texts is a ValueError.  The float
\* is kept as the pair <<whole part, fraction digits without trailing zeros>>
float(v) ==
    LET dots == {n \in 1..Len(v) : v[n] = "."}
        numeral == /\ \A n \in 1..Len(v) : IsDigit(v[n]) \/ v[n] = "."
                   /\ Cardinality(dots) <= 1
                   /\ \E n \in 1..Len(v) : IsDigit(v[n])
        dot == IF dots = {} THEN Len(v) + 1 ELSE CHOOSE n \in dots : TRUE
        RECURSIVE Trim(_)
        Trim(ds) == IF ds # <<>> /\ ds[Len(ds)] = "0"
                    THEN Trim(SubSeq(ds, 1, Len(ds) - 1))
                    ELSE ds
    IN  IF numeral
        THEN [exc |-> "none",
              v |-> <<Natural(SubSeq(v, 1, dot - 1)),
                      Trim(SubSeq(v, dot + 1, Len(v)))>>]
        ELSE [exc |-> "ValueError", v |-> <<0, <<>>>>]

\* line 630: "partitions" and "dispersion" in s, which Python reads as
\* "partitions" and ("dispersion" in s)
is_match_both(s) == contains(partitions, s) /\ contains(dispersion, s)
is_match(s) == partitions # <<>> /\ contains(dispersion, s)

\* a token cut at its first space only
unpack_first_space(element) ==
    LET at == {n \in 1..Len(element) : element[n] = " "}
        k == CHOOSE n \in at : \A m \in at : n <= m
    IN  IF at = {} THEN [exc |-> "ValueError", v |-> <<>>, k |-> <<>>]
        ELSE [exc |-> "none", v |-> SubSeq(element, 1, k - 1),
              k |-> SubSeq(element, k + 1, Len(element))]

\* v, k = element.split(' ')
unpack(element) ==
    LET parts == split(element, " ")
    IN  IF Len(parts) # 2 THEN [exc |-> "ValueError", v |-> <<>>, k |-> <<>>]
        ELSE [exc |-> "none", v |-> parts[1], k |-> parts[2]]

RECURSIVE ring_loop(_, _)
\* lines 633-635: the loop over the elements
ring_loop(elements, swift_data) ==
    IF elements = <<>> THEN Returned(swift_data)
    ELSE LET pair == unpack(Head(elements))
             number == float(pair.v)
         IN  IF pair.exc # "none"
             THEN Raised("ValueError", "values to unpack", <<>>)
             ELSE IF number.exc # "none"
                  THEN Raised("ValueError", "could not convert string to float", <<>>)
                  ELSE ring_loop(Tail(elements),
                                 [x \in DOMAIN swift_data \cup {pair.k} |->
                                     IF x = pair.k THEN number.v
                                     ELSE swift_data[x]])

\* parse_swift_ring_builder(ring_builder_output)
parse_swift_ring_builder(ring_builder_output) ==
    LET swift_lines == split(ring_builder_output, "\n")
        matching == SelectSeq(swift_lines, is_match)
        tokens == split(matching[1], ",")
        elements == [n \in 1..Len(tokens) |-> strip(tokens[n])]
    IN  IF matching # <<>> THEN ring_loop(elements, <<>>)
        ELSE Returned(<<>>)

\* the lines of the texts handed to parse_swift_ring_builder
RingLines ==
    { <<"2", "5", "6", " ">> \o partitions \o <<",", " ", "0", ".", "0", " ">> \o dispersion,
      <<"0", ".", "7", "8", " ">> \o dispersion,
      <<"2", "5", "6", " ">> \o partitions,
      <<"1", " ">> \o dispersion \o <<",", "2", " ">> \o dispersion,
      <<"1", " ", "m", "a", "x", " ">> \o dispersion,
      <<"1", " ", " ">> \o dispersion,
      dispersion,
      <<"x", " ">> \o dispersion,
      <<" ", "3", " ">> \o dispersion \o <<" ", ",", "4", " ", "z">>,
      <<"1", " ", "z">>,
      <<>> }
RingTexts == {join(ls, "\n") : ls \in SeqsUpTo(RingLines, MaxRingLines)}

call_parse_swift_ring_builder ==
    /\ pc = "idle"
    /\ \E t \in RingTexts :
        Parsed("parse_swift_ring_builder", t, parse_swift_ring_builder(t))

\* the caller takes the outcome; nothing of a call outlives it
Return ==
    /\ pc = "done"
    /\ pc' = "idle"
    /\ op' = "none"
    /\ resource_id' = Uuid(1)
    /\ retries' = 0
    /\ attribute_name' = "status"
    /\ expected_value' = Str(<<"a">>)
    /\ case_insensitive' = TRUE
    /\ i' = 0
    /\ resource' = Dict(<<>>)
    /\ expectation_met' = FALSE
    /\ result' = NoResult
    /\ polls' = <<>>
    /\ cmds' = <<>>
    /\ sleeps' = 0
    /\ reply' = NoReply
    /\ events' = <<>>
    /\ resource_name' = Str(<<"a">>)
    /\ text' = <<>>

Next ==
    \/ call_get_resource_by_id
    \/ call_assert_resource_exists_by_id
    \/ call_get_resources_by_type
    \/ call_get_resources_by_name
    \/ call_assert_resource_exists_by_name
    \/ call_get_id_by_name
    \/ delete_it_command
    \/ delete_instance
    \/ delete_volume
    \/ delete_it_attempt
    \/ delete_it_exhausted
    \/ attribute_value_enter
    \/ attribute_value_attempt
    \/ attribute_value_verdict
    \/ create_bootable_volume
    \/ create_floating_ip
    \/ create_instance
    \/ create_snapshot_from_instance
    \/ stop_server_instance
    \/ call_parse_table
    \/ call_parse_swift_recon
    \/ call_parse_swift_ring_builder
    \/ Return

Spec == Init /\ [][Next]_vars

\* ------------------------------------------- the loops, accessor set aside
\* The two retry loops with the call of get_resources_by_type in them taken
\* for either of two things: what line 562 makes of it, or what lines 564-569
\* return once a host has run the list command.  What holds of every
\* behaviour here holds of the loops whatever the accessor does.

\* listings that show the resource absent, once without the attribute, twice,
\* once with each value of the attribute, and an output that is no JSON
LoopOutputs(id) ==
    LET bare == Dict([k \in {"ID"} |-> str(id)])
        Valued(t) == Dict([k \in {"ID", "status"} |->
                              IF k = "ID" THEN str(id) ELSE Str(t)])
    IN  {Json(List(<<>>)), Json(List(<<bare>>)), Json(List(<<bare, bare>>)), Text}
            \cup {Json(List(<<Valued(t)>>)) : t \in AttrStrings}

\* the outcome of get_resources_by_type in a pass of a loop
Accessed(answered, type, out) ==
    IF answered THEN loaded(Host, type, ListReply(out))
    ELSE get_resources_by_type(Host, type, ListReply(out))

delete_it_poll ==
    /\ pc = "delete_loop"
    /\ \E out \in LoopOutputs(resource_id), answered \in BOOLEAN :
        delete_it_pass(
            exists_by_id(resource_by_id(Accessed(answered, resource_type, out),
                                        resource_id)),
            out)

attribute_value_poll ==
    /\ pc = "attribute_loop"
    /\ \E out \in LoopOutputs(resource_id), answered \in BOOLEAN :
        attribute_value_pass(
            resource_by_id(Accessed(answered, "server", out), resource_id),
            out)

NextLoops ==
    \/ delete_it_command
    \/ delete_it_poll
    \/ delete_it_exhausted
    \/ attribute_value_enter
    \/ attribute_value_poll
    \/ attribute_value_verdict
    \/ Return
SpecLoops == Init /\ [][NextLoops]_vars

\* the parsers alone: they touch nothing of the remote system
NextParsers ==
    \/ call_parse_table
    \/ call_parse_swift_recon
    \/ call_parse_swift_ring_builder
    \/ Return
SpecParsers == Init /\ [][NextParsers]_vars

\* =====================================================================
\* What the remote system showed, in the terms of the specification
\* =====================================================================
\* the records a listing shows
Shown(out) == IF out.fmt = "json" /\ out.doc.kind = "list" THEN out.doc.v ELSE <<>>
\* the record carries the identifier (an identifier is listed by its text)
Carries(x, id) == x.kind = "dict" /\ "ID" \in DOMAIN x.v /\ x.v["ID"] = str(id)
Holders(out, id) == {n \in 1..Len(Shown(out)) : Carries(Shown(out)[n], id)}
Absent(out, id) == Holders(out, id) = {}
Present(out, id) == Cardinality(Holders(out, id)) = 1
Ambiguous(out, id) == Cardinality(Holders(out, id)) > 1
TheRecord(out, id) == Shown(out)[CHOOSE n \in Holders(out, id) : TRUE]
\* the listed resource has the attribute
HasAttribute(out, id, name) == Present(out, id) /\ name \in DOMAIN TheRecord(out, id).v
Observed(out, id, name) == TheRecord(out, id).v[name]
\* equal, or equal ignoring letter case when that is allowed
Matches(actual, expected, ci) ==
    \/ actual = expected
    \/ ci /\ actual.kind = "str" /\ lower(actual.v) = lower(expected.v)
Done(name) == pc = "done" /\ op = name
Polls == 1..Len(polls)

\* C1: _delete_it with budget n >= 1, after a delete command that exited zero,
\* polling a resource that each poll shows present or absent: it ends without
\* an exception; it returns True exactly when its last poll showed the resource
\* absent, and False only after n polls that all showed it present.
C1_DeletionConfirmed ==
    (/\ Done("_delete_it")
     /\ reply.rc = 0
     /\ retries >= 1
     /\ \A k \in Polls : ~Ambiguous(polls[k], resource_id))
    => /\ result.exc = "none"
       /\ result.v = Bool(TRUE) <=> (polls # <<>> /\ Absent(polls[Len(polls)], resource_id))
       /\ result.v = Bool(FALSE) =>
            /\ Len(polls) = retries
            /\ \A k \in Polls : Present(polls[k], resource_id)

\* C2: get_resource_by_id returns the record when exactly one record of the
\* listing carries the identifier, fails with NotFound when none does and with
\* AmbiguousResult when two or more do; records without an identifier field,
\* with a mistyped one, and things that are no records count as non-matches.
C2_LookupByIdentifier ==
    Done("get_resource_by_id") =>
        /\ Present(polls[1], resource_id) =>
               result = Returned(TheRecord(polls[1], resource_id))
        /\ Absent(polls[1], resource_id) =>
               result.exc = "RuntimeError" /\ result.msg = "not found"
        /\ Ambiguous(polls[1], resource_id) =>
               result.exc = "RuntimeError" /\ result.msg = "multiple"

\* C3: assert_resource_exists_by_id keeps polling while the lookup is NotFound:
\* it succeeds when its last poll shows the resource, and it raises its
\* NotFound verification failure only when every poll showed the resource
\* absent.
C3_ExistenceRetries ==
    Done("assert_resource_exists_by_id") =>
        /\ Present(polls[Len(polls)], resource_id) => result.exc = "none"
        /\ result.exc = "AssertionError" /\ result.msg = "not found"
               => \A k \in Polls : Absent(polls[k], resource_id)

C5_MatchOnFirstAttempt ==
    (/\ Done("assert_resource_attribute_value")
     /\ retries >= 1
     /\ HasAttribute(polls[1], resource_id, attribute_name)
     /\ Matches(Observed(polls[1], resource_id, attribute_name), expected_value,
                case_insensitive))
    => result = Returned(None) /\ sleeps = 1

\* C6: in assert_resource_attribute_value a poll that shows no record with the
\* identifier does not end the call: when every poll showed the resource absent
\* or with the attribute present, a failure is raised only after the whole
\* budget of polls.
C6_NotFoundAbsorbed ==
    (/\ Done("assert_resource_attribute_value")
     /\ \A k \in Polls : \/ Absent(polls[k], resource_id)
                         \/ HasAttribute(polls[k], resource_id, attribute_name)
     /\ result.exc # "none")
    => result.exc = "AssertionError" /\ Len(polls) = retries

\* C7: in assert_resource_attribute_value, a poll that shows the resource
\* without the named attribute ends the call with an AssertionError: it is the
\* last poll, and no sleep follows it.
C7_AttributeMissingIsFatal ==
    \A k \in Polls :
        (/\ Done("assert_resource_attribute_value")
         /\ Present(polls[k], resource_id)
         /\ ~HasAttribute(polls[k], resource_id, attribute_name))
        => /\ result.exc = "AssertionError"
           /\ result.msg = "attribute does not exist"
           /\ k = Len(polls)
           /\ events[Len(events)].ev # "sleep"

\* C8: with budget n >= 1, when every poll shows the resource with the
\* attribute present and not matching, assert_resource_attribute_value raises
\* an AssertionError after exactly n polls, carrying the expected value and the
\* value of the last poll.
C8_ExhaustedReportsLastValue ==
    (/\ Done("assert_resource_attribute_value")
     /\ retries >= 1
     /\ \A k \in Polls :
            /\ HasAttribute(polls[k], resource_id, attribute_name)
            /\ ~Matches(Observed(polls[k], resource_id, attribute_name),
                        expected_value, case_insensitive))
    => /\ result.exc = "AssertionError"
       /\ Len(polls) = retries
       /\ result.detail = <<expected_value,
                            Observed(polls[Len(polls)], resource_id, attribute_name)>>

\* C9: a call of assert_resource_attribute_value with budget 1 succeeds exactly
\* when the value it is shown equals the expected one, or case-insensitive
\* matching is enabled and the two are equal ignoring letter case, whichever of
\* them carries the upper-case letters.
C9_CaseInsensitiveEitherWay ==
    (/\ Done("assert_resource_attribute_value")
     /\ retries = 1
     /\ HasAttribute(polls[1], resource_id, attribute_name))
    => (result.exc = "none"
          <=> Matches(Observed(polls[1], resource_id, attribute_name),
                      expected_value, case_insensitive))

\* C10: a mutating action whose command exited with a non-zero status ends with
\* an AssertionError, whatever the command printed.
MutatingActions ==
    {"create_bootable_volume", "create_floating_ip", "create_instance",
     "create_snapshot_from_instance", "_delete_it", "stop_server_instance"}
C10_CommandFailedIsFatal ==
    (/\ pc = "done"
     /\ op \in MutatingActions
     /\ cmds # <<>>
     /\ reply.rc # 0)
    => result.exc = "AssertionError"

\* C11: delete_instance and delete_volume, after a delete command that exited
\* zero, polling a resource that each poll shows present or absent, hand their
\* caller a boolean: True exactly when the last poll showed the resource
\* absent, False only after the whole budget of polls showed it present.
C11_DeleteReturnsOutcome ==
    (/\ pc = "done"
     /\ op \in {"delete_instance", "delete_volume"}
     /\ reply.rc = 0
     /\ \A k \in Polls : ~Ambiguous(polls[k], resource_id))
    => /\ result.exc = "none"
       /\ result.v \in {Bool(TRUE), Bool(FALSE)}
       /\ result.v = Bool(TRUE) <=> Absent(polls[Len(polls)], resource_id)
       /\ result.v = Bool(FALSE) =>
            /\ Len(polls) = default_retries
            /\ \A k \in Polls : Present(polls[k], resource_id)

\* C12: get_resources_by_type never raises, and returns the empty snapshot
\* whenever what the host printed is not JSON.
C12_AccessorNeverRaises ==
    Done("get_resources_by_type") =>
        /\ result.exc = "none"
        /\ polls[1].fmt # "json" => result.v = List(<<>>)

\* the record x carries the running call's name under key
Named(x, key) == x.kind = "dict" /\ key \in DOMAIN x.v /\ x.v[key] = resource_name
HasField(x, key) == x.kind = "dict" /\ key \in DOMAIN x.v
\* the key lookup-by-name goes by: 'Display Name' only when no record of the
\* listing has 'Name'
NameKey(out) ==
    IF \A n \in 1..Len(Shown(out)) : ~HasField(Shown(out)[n], "Name")
    THEN "Display Name"
    ELSE "Name"
NameMatches(out) ==
    LET Hit(x) == Named(x, NameKey(out))
    IN  SelectSeq(Shown(out), Hit)

\* C13: get_resources_by_name returns, in the order of the listing, the records
\* whose 'Name' is the name asked for; it goes by 'Display Name' only when no
\* record of the listing has 'Name'; with no match it returns the empty list.
C13_LookupByName ==
    Done("get_resources_by_name") =>
        result = Returned(List(NameMatches(polls[1])))

\* C14: assert_resource_exists_by_name raises AssertionError when no record of
\* the listing has the name, and returns normally only when one has.
C14_ExistsByName ==
    Done("assert_resource_exists_by_name") =>
        /\ NameMatches(polls[1]) = <<>> => result.exc = "AssertionError"
        /\ result.exc = "none" => NameMatches(polls[1]) # <<>>

\* C15: get_id_by_name returns the identifier of the first record of the
\* listing that has the name, and raises AssertionError when no record has the
\* name or that first record has no 'ID'.
C15_IdOfFirstMatch ==
    Done("get_id_by_name") =>
        LET matches == NameMatches(polls[1])
        IN  /\ matches = <<>> => result.exc = "AssertionError"
            /\ (matches # <<>> /\ ~HasField(matches[1], "ID")) =>
                   result.exc = "AssertionError"
            /\ (/\ matches # <<>>
                /\ HasField(matches[1], "ID")
                /\ uuid_UUID(matches[1].v["ID"]).exc = "none") =>
                   result = Returned(uuid_UUID(matches[1].v["ID"]).v)

\* the lines parse_table reads: those that are not empty and hold no '-+-'
TableRead ==
    SelectSeq(split(text, "\n"),
              LAMBDA x : x # <<>> /\ ~contains(<<"-", "+", "-">>, x))
\* of those, the lines after the header line, which is the first with a cell
TableRows ==
    LET withCells == {n \in 1..Len(TableRead) : splitted_line(TableRead[n]) # <<>>}
    IN  IF withCells = {} THEN <<>>
        ELSE LET h == CHOOSE n \in withCells : \A m \in withCells : n <= m
             IN  SubSeq(TableRead, h + 1, Len(TableRead))

\* C16: every row parse_table returns begins with all the cells of its line,
\* in order, and is followed by empty strings up to the header's length when
\* the line has fewer cells than the header; a line with more cells than the
\* header keeps them all.
C16_PadsNeverDrops ==
    Done("parse_table") =>
        /\ Len(result.v.data) = Len(TableRows)
        /\ \A r \in 1..Len(TableRows) :
              LET cells == splitted_line(TableRows[r])
                  row == result.v.data[r]
                  width == Len(result.v.header)
              IN  /\ Len(row) = IF Len(cells) < width THEN width ELSE Len(cells)
                  /\ SubSeq(row, 1, Len(cells)) = cells
                  /\ \A n \in (Len(cells) + 1)..Len(row) : row[n] = <<>>

\* a table with a row that was padded and a row longer than the header
C16_Witness ==
    /\ Done("parse_table")
    /\ \E r \in 1..Len(TableRows) :
          /\ Len(splitted_line(TableRows[r])) < Len(result.v.header)
          /\ result.v.data[r][Len(result.v.header)] = <<>>
    /\ \E r \in 1..Len(TableRows) :
          /\ Len(splitted_line(TableRows[r])) > Len(result.v.header)
          /\ result.v.data[r] = splitted_line(TableRows[r])

\* C17, as the specification states it: every row parse_table returns has
\* exactly as many cells as the header has columns.
C17_RowsHaveHeaderLength ==
    Done("parse_table") =>
        \A r \in 1..Len(result.v.data) :
            Len(result.v.data[r]) = Len(result.v.header)

\* C17, amended: every row parse_table returns has at least as many cells as
\* the header has columns, and a row with more cells than that was not padded:
\* its last cell is a cell of the line, hence not empty.
C17_RowsAtLeastHeaderLength ==
    Done("parse_table") =>
        \A r \in 1..Len(result.v.data) :
            LET row == result.v.data[r]
            IN  /\ Len(row) >= Len(result.v.header)
                /\ Len(row) > Len(result.v.header) => row[Len(row)] # <<>>

\* a table whose first row is longer than the header and whose second row was
\* padded to the header's length
C17_Witness ==
    /\ Done("parse_table")
    /\ Len(result.v.data) = 2
    /\ Len(result.v.data[1]) > Len(result.v.header)
    /\ Len(result.v.data[2]) = Len(result.v.header)
    /\ result.v.data[2][Len(result.v.header)] = <<>>

\* of the lines L, those that begin with 79 '=' characters
Delimiters(L) ==
    {n \in 1..Len(L) :
        /\ Len(L[n]) >= DelimiterWidth
        /\ \A m \in 1..DelimiterWidth : L[n][m] = "="}
\* the position of the nth of the delimiter lines D
Delimiter(D, nth) ==
    CHOOSE n \in D : Cardinality({m \in D : m < n}) = nth - 1

\* C18: for a text with k delimiter lines parse_swift_recon returns max(0, k-1)
\* blocks, and block b is the lines strictly between delimiter b and
\* delimiter b+1, in order; so the lines before the first delimiter and after
\* the last are in no block, and with k <= 1 the result is empty.
C18_BlocksBetweenDelimiters ==
    Done("parse_swift_recon") =>
        LET L == splitlines(text)
            D == Delimiters(L)
            k == Cardinality(D)
        IN  /\ Len(result.v) = IF k = 0 THEN 0 ELSE k - 1
            /\ \A b \in 1..(k - 1) :
                  result.v[b] = SubSeq(L, Delimiter(D, b) + 1,
                                       Delimiter(D, b + 1) - 1)

\* a text with lines before its first delimiter, after its last, and in the
\* block between two delimiters
C18_Witness ==
    /\ Done("parse_swift_recon")
    /\ LET L == splitlines(text)
           D == Delimiters(L)
       IN  /\ Cardinality(D) >= 2
           /\ 1 \notin D
           /\ Len(L) \notin D
           /\ result.v[1] # <<>>

\* the part of a token before its first space, and the part after it
BeforeSpace(tok) ==
    LET at == {n \in 1..Len(tok) : tok[n] = " "}
    IN  IF at = {} THEN tok
        ELSE SubSeq(tok, 1, (CHOOSE n \in at : \A m \in at : n <= m) - 1)
AfterSpace(tok) ==
    LET at == {n \in 1..Len(tok) : tok[n] = " "}
    IN  IF at = {} THEN <<>>
        ELSE SubSeq(tok, (CHOOSE n \in at : \A m \in at : n <= m) + 1, Len(tok))
Spaces(tok) == Cardinality({n \in 1..Len(tok) : tok[n] = " "})
\* the trimmed comma-separated tokens of the first of the lines L that
\* contains 'dispersion'
Selected(L) ==
    L[CHOOSE n \in 1..Len(L) :
          /\ contains(dispersion, L[n])
          /\ \A m \in 1..(n - 1) : ~contains(dispersion, L[m])]
Tokens(line) ==
    LET raw == split(line, ",") IN [n \in 1..Len(raw) |-> strip(raw[n])]

\* C19: parse_swift_ring_builder returns the empty mapping when no line of the
\* text contains 'dispersion'; otherwise it goes by the first line that does,
\* with or without 'partitions' in it, and the mapping it returns has an entry
\* for every comma-separated token of that line and for nothing else, each
\* key with the value of the last token that names it.
C19_FirstDispersionLine ==
    Done("parse_swift_ring_builder") =>
        LET L == split(text, "\n")
            hit == \E n \in 1..Len(L) : contains(dispersion, L[n])
            toks == Tokens(Selected(L))
        IN  /\ ~hit => result = Returned(<<>>)
            /\ (hit /\ result.exc = "none") =>
                  /\ DOMAIN result.v = {AfterSpace(toks[n]) : n \in 1..Len(toks)}
                  /\ \A n \in 1..Len(toks) :
                        (\A m \in (n + 1)..Len(toks) :
                             AfterSpace(toks[m]) # AfterSpace(toks[n]))
                        => result.v[AfterSpace(toks[n])]
                               = float(BeforeSpace(toks[n])).v

\* a text whose first line has 'partitions' alone, whose second line has
\* 'dispersion' alone, parsed into the one entry of the second line
C19_Witness ==
    /\ Done("parse_swift_ring_builder")
    /\ result.exc = "none"
    /\ LET L == split(text, "\n")
       IN  /\ Len(L) = 2
           /\ contains(partitions, L[1]) /\ ~contains(dispersion, L[1])
           /\ contains(dispersion, L[2]) /\ ~contains(partitions, L[2])
           /\ DOMAIN result.v = {dispersion}

ListRuns == {n \in 1..Len(cmds) : cmds[n].command = ListCmd("server")}

\* C24: a call of _delete_it or assert_resource_attribute_value with budget
\* n >= 1 fetches the inventory at most n times, runs at most n list commands
\* and sleeps at most n times; while it loops it has made exactly i fetches
\* with i <= n, so at most n passes separate it from its end.
C24_WithinBudget ==
    (/\ op \in {"_delete_it", "assert_resource_attribute_value"}
     /\ retries >= 1)
    => /\ Len(polls) <= retries
       /\ Cardinality(ListRuns) <= retries
       /\ sleeps <= retries
       /\ pc \in {"attribute_loop", "delete_loop"} =>
             (Len(polls) = i /\ i <= retries)

\* a deletion that used its whole budget of two or more polls and sleeps
C24_Witness ==
    /\ Done("_delete_it")
    /\ retries >= 2
    /\ Len(polls) = retries
    /\ Cardinality(ListRuns) = retries
    /\ sleeps = retries
    /\ result = Returned(Bool(FALSE))

\* C25: in a run of _delete_it the delete command is the first thing handed
\* to the host and is handed to it once, however many polls follow; when it
\* exits non-zero the call ends without any fetch or list command.
C25_DeleteIssuedOnce ==
    op = "_delete_it" =>
        /\ {n \in 1..Len(cmds) :
               cmds[n].command = DeleteCmd("server", "", resource_id)} = {1}
        /\ events[1].ev = "run"
        /\ reply.rc # 0 => (pc = "done" /\ polls = <<>> /\ Len(cmds) = 1)

\* a deletion whose command exited zero and was followed by two polls that
\* ran two list commands
C25_Witness ==
    /\ Done("_delete_it")
    /\ reply.rc = 0
    /\ Len(polls) = 2
    /\ Cardinality(ListRuns) = 2
    /\ Len(cmds) = 3

\* C26: a call of get_resources_by_type(host, T) hands the host one command:
\* the text '. ~/openrc ; openstack T list -f json', for the container
\* 'utility'.
C26_AccessorInvokesRunner ==
    Done("get_resources_by_type") =>
        cmds = <<[host |-> Host, command |-> ListCmd("server"),
                  container |-> Utility]>>

C28_IdentifierRoundTrip ==
    (/\ pc = "done"
     /\ resource_id.kind = "uuid"
     /\ polls # <<>>
     /\ Present(polls[Len(polls)], resource_id))
    => /\ op = "get_resource_by_id" =>
             result = Returned(TheRecord(polls[1], resource_id))
       /\ op = "assert_resource_exists_by_id" => result.exc = "none"
       /\ op = "_delete_it" => result # Returned(Bool(TRUE))

====
